---- MODULE Spec2Model ----
(***************************************************************************)
(* Model of the ANISE Metadata header (src/structure/metadata.rs) and of   *)
(* the GeodeticFrame capability layer (src/frames/geodetic_frame.rs).      *)
(*                                                                         *)
(* Strings are their UTF-8 byte sequences, as a Rust &str is.  DER fields  *)
(* are tag, length, value byte sequences.  The DER length limit            *)
(* (der::Length::MAX) is scaled down to LengthMax so that over-long        *)
(* strings and overflowing length sums occur inside the checked bounds.    *)
(***************************************************************************)
EXTENDS Integers, Sequences, FiniteSets, TLC

\* ------------------------------------------------------------------ bounds
LengthMax == 24
MaxDate == 1
MaxHash == 2
MaxReal == 2

\* ------------------------------------------------- DER primitives (der crate)
TagInteger == 2
TagOctetString == 4
TagUtf8String == 12

\* der::Length encodes in one byte below 0x80, else 0x81 nn, 0x82 nn nn ...
LengthBytes(n) ==
    IF n < 128 THEN <<n>>
    ELSE IF n < 256 THEN <<129, n>>
    ELSE <<130, n \div 256, n % 256>>

Header(tag, n) == <<tag>> \o LengthBytes(n)

\* der::Length arithmetic is checked: it fails above Length::MAX
LenOk(n) == [ok |-> TRUE, len |-> n, err |-> "", src |-> ""]
LenErr(e, s) == [ok |-> FALSE, len |-> 0, err |-> e, src |-> s]
LengthAdd(a, b) ==
    IF a + b > LengthMax THEN LenErr("Overflow", "Length::add") ELSE LenOk(a + b)

\* Encode::encoded_len of a tag-length-value field whose value has n bytes
ValueEncodedLen(n) == LengthAdd(Len(Header(0, n)), n)

\* Utf8StringRef::new: the string's byte length must fit a der::Length
Utf8StringRef_new(s) ==
    IF Len(s) > LengthMax
    THEN [ok |-> FALSE, err |-> "Overflow", src |-> "Utf8StringRef::new"]
    ELSE [ok |-> TRUE, err |-> "", src |-> ""]

\* well-formed UTF-8, for one- and two-byte scalar values
RECURSIVE IsUtf8(_)
IsUtf8(b) ==
    IF Len(b) = 0 THEN TRUE
    ELSE IF b[1] < 128 THEN IsUtf8(Tail(b))
    ELSE IF b[1] >= 194 /\ b[1] <= 223 /\ Len(b) >= 2
            /\ b[2] >= 128 /\ b[2] <= 191
         THEN IsUtf8(Tail(Tail(b)))
    ELSE FALSE

\* der::SliceWriter: a fixed buffer; a write that does not fit fails the writer
NewWriter(cap) == [buf |-> <<>>, cap |-> cap, failed |-> FALSE]
Write(w, bytes) ==
    IF w.failed THEN [ok |-> FALSE, w |-> w, err |-> "Failed", src |-> "Writer"]
    ELSE IF Len(w.buf) + Len(bytes) > w.cap
    THEN [ok |-> FALSE, w |-> [w EXCEPT !.failed = TRUE],
          err |-> "Overlength", src |-> "Writer"]
    ELSE [ok |-> TRUE, w |-> [w EXCEPT !.buf = w.buf \o bytes],
          err |-> "", src |-> ""]

\* Encode::encode of a tag-length-value field: the header, then the value
EncodeTLV(w, tag, value) ==
    LET h == Write(w, Header(tag, Len(value)))
    IN  IF ~h.ok THEN h ELSE Write(h.w, value)

\* Reader::decode of one field: header, expected tag, length within the input
ReadOk(v, next) == [ok |-> TRUE, value |-> v, next |-> next, err |-> ""]
ReadErr(e) == [ok |-> FALSE, value |-> <<>>, next |-> 0, err |-> e]
ReadTLV(bytes, pos, tag) ==
    IF pos + 2 > Len(bytes) THEN ReadErr("Incomplete")
    ELSE IF bytes[pos + 1] /= tag THEN ReadErr("TagUnexpected")
    ELSE IF bytes[pos + 2] >= 128 THEN ReadErr("Overlength")
    ELSE IF pos + 2 + bytes[pos + 2] > Len(bytes) THEN ReadErr("Incomplete")
    ELSE ReadOk(SubSeq(bytes, pos + 3, pos + 2 + bytes[pos + 2]),
                pos + 2 + bytes[pos + 2])

\* ---------------------------------------------------- Semver, Epoch, strings
\* Semver: an OCTET STRING of the three components
SemverBytes(v) == <<v.major, v.minor, v.patch>>
SemverDecode(bytes, pos) ==
    LET r == ReadTLV(bytes, pos, TagOctetString)
    IN  IF ~r.ok THEN r
        ELSE IF Len(r.value) /= 3 THEN ReadErr("Length")
        ELSE ReadOk([major |-> r.value[1], minor |-> r.value[2],
                     patch |-> r.value[3]], r.next)

\* Epoch: an opaque timestamp carried as one non-negative INTEGER
EpochBytes(d) == <<d>>
EpochDecode(bytes, pos) ==
    LET r == ReadTLV(bytes, pos, TagInteger)
    IN  IF ~r.ok THEN r
        ELSE IF Len(r.value) /= 1 THEN ReadErr("Length")
        ELSE IF r.value[1] >= 128 THEN ReadErr("Value")
        ELSE ReadOk(r.value[1], r.next)

\* Utf8StringRef: a UTF8String whose value must be well-formed UTF-8
Utf8Decode(bytes, pos) ==
    LET r == ReadTLV(bytes, pos, TagUtf8String)
    IN  IF ~r.ok THEN r
        ELSE IF ~IsUtf8(r.value) THEN ReadErr("Utf8")
        ELSE r

\* ------------------------------------------------------------ Metadata values
NotSet == <<40, 110, 111, 116, 32, 115, 101, 116, 41>>       \* "(not set)"
LongStr == [i \in 1..(LengthMax + 1) |-> 65]                   \* over the DER limit
Strings == {<<>>, <<65>>, <<195, 169>>, NotSet, LongStr}       \* "", "A", "é", ...
Versions == {[major |-> 1, minor |-> 0, patch |-> 0],
             [major |-> 2, minor |-> 0, patch |-> 0],
             [major |-> 0, minor |-> 1, patch |-> 2]}
Dates == 0..MaxDate

Metadata == [anise_version : Versions, creation_date : Dates,
             originator : Strings, metadata_uri : Strings]
NoMetadata == [anise_version |-> [major |-> 0, minor |-> 0, patch |-> 0],
               creation_date |-> 0, originator |-> <<>>, metadata_uri |-> <<>>]

\* the major version the reading library supports
ANISE_VERSION == [major |-> 1, minor |-> 0, patch |-> 0]

FieldTag(f) ==
    CASE f = "anise_version" -> TagOctetString
      [] f = "creation_date" -> TagInteger
      [] f = "originator"    -> TagUtf8String
      [] f = "metadata_uri"  -> TagUtf8String

FieldBytes(md, f) ==
    CASE f = "anise_version" -> SemverBytes(md.anise_version)
      [] f = "creation_date" -> EpochBytes(md.creation_date)
      [] f = "originator"    -> md.originator
      [] f = "metadata_uri"  -> md.metadata_uri

IsStringField(f) == f \in {"originator", "metadata_uri"}

\* encoded_len of one field; a string is first wrapped by Utf8StringRef::new
FieldEncodedLen(md, f) ==
    LET s == Utf8StringRef_new(FieldBytes(md, f))
    IN  IF IsStringField(f) /\ ~s.ok THEN LenErr(s.err, s.src)
        ELSE ValueEncodedLen(Len(FieldBytes(md, f)))

\* -------------------------------------------------------------- Encode
\* the order in which encode writes the fields
EncodeOrderSwapped ==
    <<"anise_version", "originator", "creation_date", "metadata_uri">>
EncodeOrder ==
    <<"anise_version", "creation_date", "originator", "metadata_uri">>

\* encoded_len with the last operand of the sum left out
encoded_len_without_uri(md) ==
    LET a == FieldEncodedLen(md, "anise_version")
        b == FieldEncodedLen(md, "creation_date")
        c == FieldEncodedLen(md, "originator")
        ab == LengthAdd(a.len, b.len)
        abc == IF ab.ok THEN LengthAdd(ab.len, c.len) ELSE ab
    IN  IF ~a.ok THEN a
        ELSE IF ~b.ok THEN b
        ELSE IF ~c.ok THEN c
        ELSE abc

\* Metadata::encoded_len: a? + b? + c? + d?  The four operands are evaluated
\* in order and the first failing one returns; the checked sums follow.
encoded_len(md) ==
    LET a == FieldEncodedLen(md, "anise_version")
        b == FieldEncodedLen(md, "creation_date")
        c == FieldEncodedLen(md, "originator")
        d == FieldEncodedLen(md, "metadata_uri")
        ab == LengthAdd(a.len, b.len)
        abc == IF ab.ok THEN LengthAdd(ab.len, c.len) ELSE ab
        abcd == IF abc.ok THEN LengthAdd(abc.len, d.len) ELSE abc
    IN  IF ~a.ok THEN a
        ELSE IF ~b.ok THEN b
        ELSE IF ~c.ok THEN c
        ELSE IF ~d.ok THEN d
        ELSE abcd

\* one statement of Metadata::encode: wrap (strings), then write the field
EncodeField(w, md, f) ==
    LET s == Utf8StringRef_new(FieldBytes(md, f))
    IN  IF IsStringField(f) /\ ~s.ok
        THEN [ok |-> FALSE, w |-> w, err |-> s.err, src |-> s.src]
        ELSE EncodeTLV(w, FieldTag(f), FieldBytes(md, f))

\* ------------------------------------------------------------------ state
VARIABLES
    m,          \* the Metadata value of the file being written
    writer,     \* the der Writer handed to encode
    epos,       \* number of fields encode has written
    eres,       \* encode's outcome: st is "run", "ok" or "err"
    emitted,    \* the fields encode has written, in order
    elen,       \* the outcome of a call of encoded_len
    input,      \* the bytes handed to decode
    tampered,   \* whether input differs from what encode wrote
    dpos,       \* number of fields decode has read
    rpos,       \* the Reader's position in input
    partial,    \* the field values decode has read so far
    dres,       \* decode's outcome: st is "none", "run", "ok" or "err"
    dval,       \* the Metadata value decode returned
    consumed,   \* the fields decode has read, in order
    dfail,      \* the fields whose decoder.decode() returned Err
    rendering   \* the lines written by Display::fmt

VARIABLES
    g,          \* a GeodeticFrame value
    frame,      \* the Frame that g was converted into
    acc,        \* the values g's accessors returned
    ctx,        \* the Context's constants store: name -> record status
    call2,      \* a call of Context::geodetic_frame and its outcome
    call3       \* a call of Context::geodetic_frame_from and its outcome

mvars == <<m, writer, epos, eres, emitted, elen, input, tampered, dpos, rpos,
           partial, dres, dval, consumed, dfail, rendering>>
fvars == <<g, frame, acc>>
cvars == <<ctx, call2, call3>>
vars == <<mvars, fvars, cvars>>

\* writer capacities: too small, exact for short headers, der's largest
\* slice, and a growable writer that is not limited to a der::Length
WriterCaps == {0, 6, 13, LengthMax, 2 * LengthMax}
TamperBytes == {0, 4, 12, 128}

EncRes(st, err, src) == [st |-> st, err |-> err, src |-> src]
DecRes(st, err, at) == [st |-> st, err |-> err, at |-> at]
NotCalled == [called |-> FALSE, ok |-> FALSE, len |-> 0, err |-> "", src |-> ""]

MetaInit ==
    /\ m \in Metadata
    /\ \E cap \in WriterCaps : writer = NewWriter(cap)
    /\ epos = 0
    /\ eres = EncRes("run", "", "")
    /\ emitted = <<>>
    /\ elen = NotCalled
    /\ input = <<>>
    /\ tampered = FALSE
    /\ dpos = 0
    /\ rpos = 0
    /\ partial = <<>>
    /\ dres = DecRes("none", "", "")
    /\ dval = NoMetadata
    /\ consumed = <<>>
    /\ dfail = {}
    /\ rendering = <<>>

\* Metadata::encode, one `?`-terminated statement at a time
encode ==
    /\ eres.st = "run"
    /\ LET f == EncodeOrder[epos + 1]
           r == EncodeField(writer, m, f)
       IN  /\ writer' = r.w
           /\ IF r.ok
              THEN /\ epos' = epos + 1
                   /\ emitted' = Append(emitted, f)
                   /\ eres' = IF epos + 1 = 4 THEN EncRes("ok", "", "") ELSE eres
              ELSE /\ eres' = EncRes("err", r.err, r.src)
                   /\ UNCHANGED <<epos, emitted>>
    /\ UNCHANGED <<m, elen, input, tampered, dpos, rpos, partial, dres, dval,
                   consumed, rendering, dfail, fvars, cvars>>

\* a call of Metadata::encoded_len
CallEncodedLen ==
    /\ ~elen.called
    /\ elen' = [called |-> TRUE] @@ encoded_len(m)
    /\ UNCHANGED <<m, writer, epos, eres, emitted, input, tampered, dpos, rpos,
                   partial, dres, dval, consumed, rendering, dfail, fvars, cvars>>

\* -------------------------------------------------------------- Decode
\* the order in which decode's struct literal reads the fields
DecodeOrderSwapped ==
    <<"anise_version", "creation_date", "metadata_uri", "originator">>
DecodeOrder ==
    <<"anise_version", "creation_date", "originator", "metadata_uri">>

\* decoder.decode() at the type of field f
DecodeField(bytes, pos, f) ==
    CASE f = "anise_version" -> SemverDecode(bytes, pos)
      [] f = "creation_date" -> EpochDecode(bytes, pos)
      [] f = "originator"    -> Utf8Decode(bytes, pos)
      [] f = "metadata_uri"  -> Utf8Decode(bytes, pos)

\* the value read for field f, among the <<field, value>> pairs read
Get(pairs, f) == (CHOOSE i \in 1..Len(pairs) : pairs[i][1] = f)

\* the file's header bytes reach a reader
Load ==
    /\ eres.st = "ok"
    /\ dres.st = "none"
    /\ input' = writer.buf
    /\ dres' = DecRes("run", "", "")
    /\ UNCHANGED <<m, writer, epos, eres, emitted, elen, tampered, dpos, rpos,
                   partial, dval, consumed, rendering, dfail, fvars, cvars>>

\* the stored header is damaged: one byte is overwritten
Tamper ==
    /\ dres.st = "run" /\ dpos = 0 /\ ~tampered
    /\ \E i \in 1..Len(input), b \in TamperBytes :
          /\ input[i] /= b
          /\ input' = [input EXCEPT ![i] = b]
    /\ tampered' = TRUE
    /\ UNCHANGED <<m, writer, epos, eres, emitted, elen, dpos, rpos, partial,
                   dres, dval, consumed, rendering, dfail, fvars, cvars>>

\* the stored header is damaged: the file ends early
Truncate ==
    /\ dres.st = "run" /\ dpos = 0 /\ ~tampered
    /\ \E n \in 0..(Len(input) - 1) : input' = SubSeq(input, 1, n)
    /\ tampered' = TRUE
    /\ UNCHANGED <<m, writer, epos, eres, emitted, elen, dpos, rpos, partial,
                   dres, dval, consumed, rendering, dfail, fvars, cvars>>

\* a decode that carries on with an empty string when a string field fails
DecodeOutcomeDefaulting(r, f, n) ==
    IF ~r.ok /\ ~IsStringField(f) THEN DecRes("err", r.err, f)
    ELSE IF n = 4 THEN DecRes("ok", "", "")
    ELSE DecRes("run", "", "")

\* the result of one field initialiser of decode's struct literal: on Err the
\* `?` returns it; on Ok the next initialiser runs, and after the fourth the
\* struct is returned
DecodeOutcome(r, f, n) ==
    IF ~r.ok THEN DecRes("err", r.err, f)
    ELSE IF n = 4 THEN DecRes("ok", "", "")
    ELSE DecRes("run", "", "")

\* Metadata::decode, one field initialiser at a time
decode ==
    /\ dres.st = "run"
    /\ LET f == DecodeOrder[dpos + 1]
           r == DecodeField(input, rpos, f)
           o == DecodeOutcome(r, f, dpos + 1)
           got == Append(partial, <<f, r.value>>)
       IN  /\ dres' = o
           /\ dfail' = IF r.ok THEN dfail ELSE dfail \cup {f}
           /\ IF o.st = "err"
              THEN UNCHANGED <<dpos, rpos, partial, consumed, dval>>
              ELSE /\ dpos' = dpos + 1
                   /\ rpos' = IF r.ok THEN r.next ELSE rpos
                   /\ partial' = got
                   /\ consumed' = Append(consumed, f)
                   /\ dval' = IF o.st = "ok"
                              THEN [anise_version |-> got[Get(got, "anise_version")][2],
                                    creation_date |-> got[Get(got, "creation_date")][2],
                                    originator |-> got[Get(got, "originator")][2],
                                    metadata_uri |-> got[Get(got, "metadata_uri")][2]]
                              ELSE dval
    /\ UNCHANGED <<m, writer, epos, eres, emitted, elen, input, tampered,
                   rendering, fvars, cvars>>

\* ------------------------------------------------------------- Display
VersionLabel == <<65, 78, 73, 83, 69, 32, 118, 101, 114, 115, 105, 111, 110, 32>>
OriginatorLabel == <<79, 114, 105, 103, 105, 110, 97, 116, 111, 114, 58, 32>>
DateLabel == <<67, 114, 101, 97, 116, 105, 111, 110, 32, 100, 97, 116, 101, 58, 32>>
UriLabel == <<77, 101, 116, 97, 100, 97, 116, 97, 32, 85, 82, 73, 58, 32>>

\* decimal digits of a small number; Semver prints major.minor.patch
Digit(n) == <<48 + n>>
SemverDisplay(v) == Digit(v.major) \o <<46>> \o Digit(v.minor) \o <<46>> \o Digit(v.patch)
EpochDisplay(d) == Digit(d)

\* the value shown for a string field: the placeholder when it is empty
ShownAlways(s) == s
Shown(s) == IF Len(s) = 0 THEN NotSet ELSE s

\* fmt::Display for Metadata: four writeln! lines
fmt(md) ==
    << VersionLabel \o SemverDisplay(md.anise_version),
       OriginatorLabel \o Shown(md.originator),
       DateLabel \o EpochDisplay(md.creation_date),
       UriLabel \o Shown(md.metadata_uri) >>

Display ==
    /\ rendering = <<>>
    /\ rendering' = fmt(m)
    /\ UNCHANGED <<m, writer, epos, eres, emitted, elen, input, tampered, dpos,
                   rpos, partial, dres, dval, consumed, dfail, fvars, cvars>>

\* ------------------------------------------------------ frame values
\* NaifId hashes and f64 quantities are drawn from small ranges
Hashes == 1..MaxHash
Reals == 0..MaxReal
Radii == 1..MaxReal

Frame == [ephemeris_hash : Hashes, orientation_hash : Hashes]
CelestialFrame == [frame : Frame, mu_km3_s2 : Reals]
Ellipsoid == [semi_major_equatorial_radius_km : Radii,
              semi_minor_equatorial_radius_km : Radii,
              polar_radius_km : Radii]
GeodeticFrame == [celestial_frame : CelestialFrame, shape : Ellipsoid,
                  angular_velocity_deg : Reals]

\* CelestialFrame's own accessors: its frame's hashes and its stored mu
CelestialFrame_ephemeris_hash(cf) == cf.frame.ephemeris_hash
CelestialFrame_orientation_hash(cf) == cf.frame.orientation_hash
CelestialFrame_mu_km3_s2(cf) == cf.mu_km3_s2

\* Ellipsoid's accessors: the mean of the two equatorial radii, and the
\* flattening (mean - polar) / mean kept as an exact fraction
Ellipsoid_mean_equatorial_radius_km(sh) ==
    (sh.semi_major_equatorial_radius_km + sh.semi_minor_equatorial_radius_km) \div 2
Ellipsoid_flattening(sh) ==
    << Ellipsoid_mean_equatorial_radius_km(sh) - sh.polar_radius_km,
       Ellipsoid_mean_equatorial_radius_km(sh) >>

\* impl FrameTrait for GeodeticFrame
ephemeris_hash(gf) == CelestialFrame_ephemeris_hash(gf.celestial_frame)
orientation_hash(gf) == CelestialFrame_orientation_hash(gf.celestial_frame)

\* impl CelestialFrameTrait for GeodeticFrame
mu_km3_s2(gf) == CelestialFrame_mu_km3_s2(gf.celestial_frame)

\* impl GeodeticFrameTrait for GeodeticFrame
mean_equatorial_radius_km_major(gf) == gf.shape.semi_major_equatorial_radius_km
mean_equatorial_radius_km(gf) == Ellipsoid_mean_equatorial_radius_km(gf.shape)
semi_major_radius_km(gf) == gf.shape.semi_major_equatorial_radius_km
flattening(gf) == Ellipsoid_flattening(gf.shape)
angular_velocity_deg_s(gf) == gf.angular_velocity_deg

\* impl Into<Frame> for GeodeticFrame
into_swapped(gf) ==
    [ephemeris_hash |-> gf.celestial_frame.frame.orientation_hash,
     orientation_hash |-> gf.celestial_frame.frame.ephemeris_hash]
into(gf) == gf.celestial_frame.frame

NoFrame == [ephemeris_hash |-> 0, orientation_hash |-> 0]
NoAcc == [queried |-> FALSE]
IdleFrame == [celestial_frame |-> [frame |-> NoFrame, mu_km3_s2 |-> 0],
              shape |-> [semi_major_equatorial_radius_km |-> 1,
                         semi_minor_equatorial_radius_km |-> 1,
                         polar_radius_km |-> 1],
              angular_velocity_deg |-> 0]

FrameInit ==
    /\ g \in GeodeticFrame
    /\ frame = NoFrame
    /\ acc = NoAcc

\* the caller narrows g to a bare Frame
IntoFrame ==
    /\ frame = NoFrame
    /\ frame' = into(g)
    /\ UNCHANGED <<g, acc, mvars, cvars>>

\* the caller queries every capability accessor of g
Query ==
    /\ ~acc.queried
    /\ acc' = [queried |-> TRUE,
               ephemeris_hash |-> ephemeris_hash(g),
               orientation_hash |-> orientation_hash(g),
               mu_km3_s2 |-> mu_km3_s2(g),
               mean_equatorial_radius_km |-> mean_equatorial_radius_km(g),
               semi_major_radius_km |-> semi_major_radius_km(g),
               flattening |-> flattening(g),
               angular_velocity_deg_s |-> angular_velocity_deg_s(g)]
    /\ UNCHANGED <<g, frame, mvars, cvars>>

\* --------------------------------------------------------------- Context
EphemerisNames == {"Earth", "Pluto"}
OrientationNames == {"IAU_EARTH", "IAU_PLUTO"}
ConstantsNames == {"Earth", "Pluto"}
\* a constants record is absent, present without a shape, or complete
RecordStatus == {"absent", "noshape", "full"}

Outcome(kind, err, name) == [kind |-> kind, err |-> err, name |-> name]

\* Context::geodetic_frame_from: the body is todo!(), which panics
geodetic_frame_from(store, ephemeris_name, orientation_name, planetary_constants_name) ==
    Outcome("panic", "not yet implemented", "")

\* Context::geodetic_frame: the constants name is the ephemeris name
geodetic_frame_own_lookup(store, ephemeris_name, orientation_name) ==
    IF store[ephemeris_name] = "absent"
    THEN Outcome("err", "NotFound", ephemeris_name)
    ELSE geodetic_frame_from(store, ephemeris_name, orientation_name, ephemeris_name)
geodetic_frame(store, ephemeris_name, orientation_name) ==
    geodetic_frame_from(store, ephemeris_name, orientation_name, ephemeris_name)

NoCall == [called |-> FALSE]

ContextInit ==
    /\ ctx \in [ConstantsNames -> RecordStatus]
    /\ call2 = NoCall
    /\ call3 = NoCall

CallGeodeticFrame ==
    /\ ~call2.called
    /\ \E e \in EphemerisNames, o \in OrientationNames :
          call2' = [called |-> TRUE, e |-> e, o |-> o,
                    out |-> geodetic_frame(ctx, e, o)]
    /\ UNCHANGED <<ctx, call3, mvars, fvars>>

CallGeodeticFrameFrom ==
    /\ ~call3.called
    /\ \E e \in EphemerisNames, o \in OrientationNames, c \in ConstantsNames :
          call3' = [called |-> TRUE, e |-> e, o |-> o, c |-> c,
                    out |-> geodetic_frame_from(ctx, e, o, c)]
    /\ UNCHANGED <<ctx, call2, mvars, fvars>>

\* ------------------------------------------------------- specifications
MetaIdle ==
    /\ m = NoMetadata
    /\ writer = NewWriter(0)
    /\ epos = 0
    /\ eres = EncRes("idle", "", "")
    /\ emitted = <<>>
    /\ elen = [called |-> TRUE] @@ LenOk(0)
    /\ input = <<>>
    /\ tampered = FALSE
    /\ dpos = 0
    /\ rpos = 0
    /\ partial = <<>>
    /\ dres = DecRes("idle", "", "")
    /\ dval = NoMetadata
    /\ consumed = <<>>
    /\ dfail = {}
    /\ rendering = <<0>>

FrameIdle ==
    /\ g = IdleFrame
    /\ frame = into(IdleFrame)
    /\ acc = [queried |-> TRUE]

ContextIdle ==
    /\ ctx = [n \in ConstantsNames |-> "absent"]
    /\ call2 = [called |-> TRUE]
    /\ call3 = [called |-> TRUE]

\* the Metadata header: written, stored, read back, rendered
Init == MetaInit /\ FrameIdle /\ ContextIdle
Next ==
    \/ encode
    \/ CallEncodedLen
    \/ Load
    \/ Tamper
    \/ Truncate
    \/ decode
    \/ Display
Spec == Init /\ [][Next]_vars

\* the frame capability layer
FrameSpecInit == FrameInit /\ MetaIdle /\ ContextIdle
FrameNext == IntoFrame \/ Query
FrameSpec == FrameSpecInit /\ [][FrameNext]_vars

\* Context resolution
ContextSpecInit == ContextInit /\ MetaIdle /\ FrameIdle
ContextNext == CallGeodeticFrame \/ CallGeodeticFrameFrom
ContextSpec == ContextSpecInit /\ [][ContextNext]_vars

\* ============================================================== claims
IsPrefix(a, b) == Len(a) <= Len(b) /\ a = SubSeq(b, 1, Len(a))

\* the header layout of the format: version, creation timestamp, originator,
\* resource URI, each as tag, length, value
FieldOrder == <<"anise_version", "creation_date", "originator", "metadata_uri">>
TLV(tag, value) == <<tag, Len(value)>> \o value
HeaderLayout(md) ==
    TLV(TagOctetString, <<md.anise_version.major, md.anise_version.minor,
                          md.anise_version.patch>>)
    \o TLV(TagInteger, <<md.creation_date>>)
    \o TLV(TagUtf8String, md.originator)
    \o TLV(TagUtf8String, md.metadata_uri)

\* C1: decoding the bytes that encode wrote for m succeeds and returns a
\* Metadata whose four fields equal those of m.
C1_RoundTrip ==
    (dres.st \in {"run", "ok", "err"} /\ ~tampered) =>
        /\ dres.st /= "err"
        /\ dres.st = "ok" =>
              /\ dval.anise_version = m.anise_version
              /\ dval.creation_date = m.creation_date
              /\ dval.originator = m.originator
              /\ dval.metadata_uri = m.metadata_uri

\* C1 witness: an untampered header with an empty originator and a non-empty,
\* different URI has been decoded
C1_Witness ==
    /\ dres.st = "ok" /\ ~tampered
    /\ m.originator = <<>> /\ m.metadata_uri = <<195, 169>>
    /\ m.anise_version.patch = 2

\* C2: decoding a well-formed header whose anise_version major exceeds the
\* major the reader supports ends in a VersionIncompatible error, never in a
\* returned Metadata value.
C2_VersionGate ==
    (dres.st \in {"ok", "err"} /\ ~tampered
        /\ m.anise_version.major > ANISE_VERSION.major) =>
        /\ dres.st = "err"
        /\ dres.err = "VersionIncompatible"

\* C3: encode writes, and decode reads, the fields in the order
\* anise_version, creation_date, originator, metadata_uri; no later field is
\* written or read before an earlier one, and the bytes written follow the
\* header layout.
C3_FieldOrder ==
    /\ IsPrefix(emitted, FieldOrder)
    /\ IsPrefix(consumed, FieldOrder)
    /\ eres.st = "ok" => writer.buf = HeaderLayout(m)
    /\ IsPrefix(writer.buf, HeaderLayout(m))

\* C3 witness: all four fields were written and all four were read back
C3_Witness == Len(emitted) = 4 /\ Len(consumed) = 4 /\ m.originator /= m.metadata_uri

\* C4: when the decoding of any field fails, decode returns an error for the
\* whole record and no Metadata value; a returned value is exactly what the
\* bytes read say, with no field defaulted.
C4_NoPartialRecord ==
    /\ dfail /= {} => (dres.st = "err" /\ dval = NoMetadata)
    /\ dres.st = "ok" => SubSeq(input, 1, rpos) = HeaderLayout(dval)
    /\ dres.st /= "ok" => dval = NoMetadata

\* C4 witness: a damaged header whose first two fields decoded and whose
\* originator is not valid UTF-8
C4_Witness ==
    /\ tampered /\ dres.st = "err" /\ dres.err = "Utf8"
    /\ dres.at = "originator" /\ dpos = 2 /\ dfail = {"originator"}

\* C5: for a store with no record under the constants name, geodetic_frame
\* and geodetic_frame_from return a NotFound error naming that constants
\* name, and do not panic.
C5_NotFound ==
    /\ (call3.called /\ ctx[call3.c] = "absent") =>
          call3.out = Outcome("err", "NotFound", call3.c)
    /\ (call2.called /\ ctx[call2.e] = "absent") =>
          call2.out = Outcome("err", "NotFound", call2.e)

\* C6: geodetic_frame(e, o) has the same outcome as
\* geodetic_frame_from(e, o, e), for every store.
C6_SameOutcome ==
    (call2.called /\ call3.called /\ call3.e = call2.e /\ call3.o = call2.o
        /\ call3.c = call2.e) =>
        call2.out = call3.out

\* C6 witness: both forms were called with the same names on a store that
\* has no record for the ephemeris name
C6_Witness ==
    /\ call2.called /\ call3.called
    /\ call3.e = call2.e /\ call3.o = call2.o /\ call3.c = call2.e
    /\ ctx[call2.e] = "absent"

\* C7: converting g into a Frame yields exactly the two hashes of
\* g.celestial_frame.frame, which are g.ephemeris_hash() and
\* g.orientation_hash().
C7_IntoKeepsHashes ==
    frame /= NoFrame =>
        /\ frame.ephemeris_hash = g.celestial_frame.frame.ephemeris_hash
        /\ frame.orientation_hash = g.celestial_frame.frame.orientation_hash
        /\ frame.ephemeris_hash = ephemeris_hash(g)
        /\ frame.orientation_hash = orientation_hash(g)
        /\ DOMAIN frame = {"ephemeris_hash", "orientation_hash"}

\* C7 witness: a frame whose two hashes differ, with a non-zero mu, was
\* converted
C7_Witness ==
    /\ frame /= NoFrame
    /\ g.celestial_frame.frame.ephemeris_hash
          /= g.celestial_frame.frame.orientation_hash
    /\ g.celestial_frame.mu_km3_s2 > 0

\* C8: every narrower accessor of g returns the embedded component's value:
\* mu and the two hashes are celestial_frame's, the mean equatorial radius is
\* shape's, the angular velocity is the stored field.
C8_Delegation ==
    acc.queried =>
        /\ acc.mu_km3_s2 = CelestialFrame_mu_km3_s2(g.celestial_frame)
        /\ acc.ephemeris_hash = CelestialFrame_ephemeris_hash(g.celestial_frame)
        /\ acc.orientation_hash = CelestialFrame_orientation_hash(g.celestial_frame)
        /\ acc.mean_equatorial_radius_km
              = Ellipsoid_mean_equatorial_radius_km(g.shape)
        /\ acc.angular_velocity_deg_s = g.angular_velocity_deg

\* C8 witness: the accessors of a frame whose mean equatorial radius differs
\* from its semi-major radius were queried
C8_Witness ==
    /\ acc.queried
    /\ Ellipsoid_mean_equatorial_radius_km(g.shape)
          /= g.shape.semi_major_equatorial_radius_km
    /\ g.celestial_frame.frame.ephemeris_hash
          /= g.celestial_frame.frame.orientation_hash

\* the value part of a rendered line
ValueOf(line, label) == SubSeq(line, Len(label) + 1, Len(line))
ShownOriginator == ValueOf(rendering[2], OriginatorLabel)
ShownUri == ValueOf(rendering[4], UriLabel)

\* C9 as stated: the originator line shows "(not set)" if and only if
\* originator is empty, and otherwise the originator unchanged; likewise the
\* metadata_uri line; neither value is blank.
C9_SentinelIff ==
    rendering /= <<>> =>
        /\ ShownOriginator = NotSet <=> m.originator = <<>>
        /\ m.originator /= <<>> => ShownOriginator = m.originator
        /\ ShownUri = NotSet <=> m.metadata_uri = <<>>
        /\ m.metadata_uri /= <<>> => ShownUri = m.metadata_uri
        /\ ShownOriginator /= <<>> /\ ShownUri /= <<>>

\* C9 amended: the originator line shows "(not set)" if originator is empty
\* and otherwise the originator unchanged, so it shows "(not set)" exactly
\* when originator is empty or is itself "(not set)"; likewise the
\* metadata_uri line; neither value is empty.
C9_Sentinel ==
    rendering /= <<>> =>
        /\ IsPrefix(OriginatorLabel, rendering[2])
        /\ IsPrefix(UriLabel, rendering[4])
        /\ m.originator = <<>> => ShownOriginator = NotSet
        /\ m.originator /= <<>> => ShownOriginator = m.originator
        /\ ShownOriginator = NotSet <=> m.originator \in {<<>>, NotSet}
        /\ m.metadata_uri = <<>> => ShownUri = NotSet
        /\ m.metadata_uri /= <<>> => ShownUri = m.metadata_uri
        /\ ShownUri = NotSet <=> m.metadata_uri \in {<<>>, NotSet}
        /\ ShownOriginator /= <<>> /\ ShownUri /= <<>>

\* C9 witness: a Metadata with an empty originator and a set URI was rendered
C9_Witness ==
    /\ rendering /= <<>>
    /\ m.originator = <<>> /\ m.metadata_uri = <<65>>

\* the byte length of each field as laid out, and their sum
LayoutLen(md) ==
    Len(TLV(TagOctetString, <<md.anise_version.major, md.anise_version.minor,
                              md.anise_version.patch>>))
    + Len(TLV(TagInteger, <<md.creation_date>>))
    + Len(TLV(TagUtf8String, md.originator))
    + Len(TLV(TagUtf8String, md.metadata_uri))

\* originator or metadata_uri is longer than a DER length can say
StrRejected(md) == Len(md.originator) > LengthMax \/ Len(md.metadata_uri) > LengthMax
ElenStrErr == elen.called /\ ~elen.ok /\ elen.src = "Utf8StringRef::new"
EncStrErr == eres.st = "err" /\ eres.src = "Utf8StringRef::new"
EncodeEnded == eres.st \in {"ok", "err"}

\* C10 as stated: encoded_len is the sum of the four fields' encoded
\* lengths; whenever encode succeeds it has written exactly encoded_len
\* bytes; encoded_len fails on an unrepresentable string exactly when encode
\* fails for that same reason.
C10_EncodedLenAsStated ==
    (elen.called /\ EncodeEnded) =>
        /\ elen.ok => elen.len = LayoutLen(m)
        /\ eres.st = "ok" => (elen.ok /\ elen.len = Len(writer.buf))
        /\ ElenStrErr <=> EncStrErr

\* C10 amended: encoded_len, when it succeeds, is the sum of the four
\* fields' encoded lengths; whenever encode and encoded_len both succeed,
\* encode has written exactly encoded_len bytes; encoded_len fails on an
\* unrepresentable string exactly when originator or metadata_uri exceeds the
\* DER length limit, and encode then fails as well, for that same reason
\* unless its writer rejected an earlier write; encode never fails for that
\* reason when encoded_len does not.
C10_EncodedLen ==
    elen.called =>
        /\ elen.ok => elen.len = LayoutLen(m)
        /\ (eres.st = "ok" /\ elen.ok) => elen.len = Len(writer.buf)
        /\ (eres.st = "ok" /\ ~elen.ok) =>
              (elen.src = "Length::add" /\ writer.cap > LengthMax)
        /\ ElenStrErr <=> StrRejected(m)
        /\ (ElenStrErr /\ EncodeEnded) =>
              (EncStrErr \/ (eres.st = "err" /\ eres.src = "Writer"))
        /\ EncStrErr => (ElenStrErr /\ eres.err = elen.err)

\* C10 witness: encode succeeded on a header with both strings set and
\* encoded_len returned the number of bytes written
C10_Witness ==
    /\ elen.called /\ elen.ok /\ eres.st = "ok"
    /\ elen.len = Len(writer.buf)
    /\ m.originator /= <<>> /\ m.metadata_uri /= <<>>

====
